---- MODULE Spec2Model ----
(***************************************************************************)
(* Dengue dashboard for Goias: the data pipeline of app.py, app_simple.py  *)
(* and fetch_data.py (HTTP fetch, response normalisation, caching,         *)
(* process_dengue_data, the views built of the table) as state machines.   *)
(*                                                                         *)
(* Library calls are modelled by what they do:                             *)
(*   requests.get / raise_for_status / response.json  -> an upstream       *)
(*       outcome (2xx with a JSON body, non-2xx, timeout, connection       *)
(*       error, body that is not JSON);                                    *)
(*   pd.DataFrame, pd.to_numeric, pd.to_datetime, fillna, sort_values      *)
(*       -> operators on tables of tagged cells (pandas >= 1.0);           *)
(*   st.cache_data(ttl) -> a per-(function, arguments) store with a        *)
(*       time-to-live.                                                     *)
(***************************************************************************)
EXTENDS Integers, Sequences, FiniteSets, TLC

VARIABLES
    fn,           \* the fetch function being executed
    pc,           \* its position: idle, page1, loop, done
    page,         \* params["page"] of the next request of the for loop
    announced,    \* the pagination object of page 1, as the upstream sent it
    total_pages,  \* pagination.get("total_pages", 1) read from page 1
    all_items,    \* the items accumulated so far
    reqs,         \* log of the upstream requests issued, as page numbers
    served,       \* log of the item ids the upstream served, in order
    shape,        \* JSON shape of a single-entity response ("" before it)
    cause,        \* why the fetch ended: none, ok, or the failing outcome
    failed_at,    \* page whose request failed (0: none)
    result,       \* what the caller gets: a table, or an exception
    ui,           \* messages the fetch function put on the page
    df,           \* process_dengue_data: the caller's table (mutated in place)
    df0,          \* the table as it was before the call
    out1,         \* process_dengue_data(df)
    out2,         \* process_dengue_data(process_dengue_data(df))
    ppc,          \* position of the process_dengue_data scenario
    variant,      \* which process_dengue_data: app or fetch_data
    cache,        \* st.cache_data: the entry stored for each key
    now,          \* the clock, in seconds
    ticks,        \* how often the clock has advanced
    upstream,     \* per key, how often the cached function has run
    last,         \* the last call of a cached function and what it returned
    script,       \* the views: the script they belong to, app or app_simple
    view_df,      \* the table handed to the view
    gdf,          \* the geometries handed to create_choropleth_map
    vpc,          \* which view has been built ("start" before any)
    df_latest,    \* the view's local df_latest, once it is computed
    view,         \* what the view returned, or the exception it raised
    apc,          \* fetch_all_municipalities_data: its position
    pos,          \* position in GOIAS_MUNICIPALITIES of the next iteration
    fetched,      \* log of the calls of fetch_infodengue_data and their returns
    all_data,     \* the list all_data
    all_ret,      \* what fetch_all_municipalities_data returned
    mpc,          \* main: its position
    app,          \* the script main belongs to, app or app_simple
    view_type,    \* the sidebar's view_type
    df_state,     \* main's df_state
    main_gdf,     \* main's gdf (app.py)
    df_muni,      \* main's df_muni
    built,        \* the elements main has put on the page, in order
    muni_calls    \* log of the per-municipality fetches main issued

fetchVars == <<fn, pc, page, announced, total_pages, all_items, reqs, served, shape, cause, failed_at, result, ui>>
procVars == <<df, df0, out1, out2, ppc, variant>>
cacheVars == <<cache, now, ticks, upstream, last>>
viewVars == <<script, view_df, gdf, vpc, df_latest, view>>
allVars == <<apc, pos, fetched, all_data, all_ret>>
mainVars == <<mpc, app, view_type, df_state, main_gdf, df_muni, built, muni_calls>>
vars == <<fetchVars, procVars, cacheVars, viewVars, allVars, mainVars>>

(***************************************************************************)
(* Bounds of the model.                                                    *)
(***************************************************************************)
MaxTotalPages == 6   \* largest total_pages the upstream announces
MaxItems == 3        \* most items the upstream serves over one fetch
MaxRows == 2         \* rows of a table handed to process_dengue_data
MaxTicks == 2        \* advances of the clock
MaxFetches == 2      \* runs of one cached function for one key

(***************************************************************************)
(* Cells and tables.  A cell is a tagged value:                            *)
(*   nan      a missing value (None, NaN, NaT)                             *)
(*   int      a number                                                     *)
(*   numstr   a string that parses as the number v                         *)
(*   str      a string that is neither a number nor a date                 *)
(*   datestr  an ISO date string for the instant v                         *)
(*   ts       a pandas Timestamp for the instant v (0 is the epoch)        *)
(* A table is its set of column names and its rows in order; a row maps    *)
(* each column to a cell.                                                  *)
(***************************************************************************)
Cell(t, v) == [t |-> t, v |-> v]
NaN == Cell("nan", 0)

Table(cols, rows) == [cols |-> cols, rows |-> rows]
EmptyTable == Table({}, <<>>)          \* pd.DataFrame()
IsEmpty(t) == t.cols = {} \/ t.rows = <<>>   \* DataFrame.empty

Range(s) == {s[i] : i \in 1..Len(s)}
Min(a, b) == IF a < b THEN a ELSE b
Max(a, b) == IF a < b THEN b ELSE a

(***************************************************************************)
(* process_dengue_data                                                     *)
(***************************************************************************)
\* pd.to_numeric(x, errors='coerce'), cell by cell
ToNumeric(c) ==
    CASE c.t = "int" -> c
      [] c.t = "numstr" -> Cell("int", c.v)
      [] OTHER -> NaN

\* pd.to_datetime(x, errors='coerce'), cell by cell: a number is an offset
\* from the epoch
ToDatetime(c) ==
    CASE c.t = "ts" -> c
      [] c.t = "datestr" -> Cell("ts", c.v)
      [] c.t = "int" -> Cell("ts", c.v)
      [] OTHER -> NaN

\* fillna(0), cell by cell: a missing value of any column becomes the integer
\* 0; a datetime column cannot hold 0, so it is cast to object and its NaT
\* become the integer 0 next to the Timestamps
FillNa0(c) == IF c.t = "nan" THEN Cell("int", 0) ELSE c

NumericColsApp == {"casos_est", "casos_est_min", "casos_est_max", "casos",
    "p_rt1", "p_inc100k", "Rt", "pop", "receptivo", "transmissao",
    "umidmax", "umidmed", "umidmin", "tempmax", "tempmed", "tempmin",
    "casprov", "casprov_est", "casprov_est_min", "casprov_est_max", "casconf"}

NumericColsFd == {"casos_est", "casos_est_min", "casos_est_max", "casos",
    "p_rt1", "p_inc100k", "Rt", "pop", "receptivo", "transmissao",
    "umidmax", "umidmed", "umidmin", "tempmax", "tempmed", "tempmin"}

NumericCols(v) == IF v = "app" THEN NumericColsApp ELSE NumericColsFd

DateCols(v) == IF v = "app" THEN {"data_iniSE", "data_ini_SE"} ELSE {"data_iniSE"}

\* the two conversion loops: df[col] = pd.to_numeric(...), df[col] = pd.to_datetime(...)
Coerce(v, t) ==
    Table(t.cols, [i \in 1..Len(t.rows) |->
        [k \in t.cols |->
            IF k \in NumericCols(v) THEN ToNumeric(t.rows[i][k])
            ELSE IF k \in DateCols(v) THEN ToDatetime(t.rows[i][k])
            ELSE t.rows[i][k]]])

\* df = df.fillna(0)
FillNa(t) ==
    Table(t.cols, [i \in 1..Len(t.rows) |->
        [k \in t.cols |-> FillNa0(t.rows[i][k])]])

\* the column the table is sorted by; "" when it is not sorted
SortCol(v, cols) ==
    IF "data_iniSE" \in cols THEN "data_iniSE"
    ELSE IF v = "app" /\ "data_ini_SE" \in cols THEN "data_ini_SE"
    ELSE ""

\* sort_values compares the cells of the column: a Timestamp and an int in one
\* (object) column do not compare, '<' raises TypeError
SortRaises(t, c) ==
    \E i, j \in 1..Len(t.rows) :
        t.rows[i][c].t = "ts" /\ t.rows[j][c].t \notin {"ts", "nan"}

\* the rows at the positions keep, in their order
Pick(rows, keep) ==
    LET F[i \in 0..Len(rows)] ==
            IF i = 0 THEN <<>>
            ELSE IF i \in keep THEN Append(F[i - 1], rows[i]) ELSE F[i - 1]
    IN F[Len(rows)]

\* the orders sort_values(c) may return: every arrangement of the rows with
\* non-decreasing keys.  The default kind, quicksort, promises no order among
\* equal keys (numpy keeps it only for arrays short enough for its insertion
\* sort), and the tables of the model stand for tables of any length.  Rows
\* whose key is missing come last, in their input order (na_position='last').
RECURSIVE Arrangements(_, _, _)
Arrangements(rows, c, S) ==
    IF S = {} THEN {<<>>}
    ELSE UNION {{<<rows[i]>> \o rest : rest \in Arrangements(rows, c, S \ {i})} :
                i \in {k \in S : \A j \in S : rows[k][c].v <= rows[j][c].v}}

SortValues(t, c) ==
    LET keyed == {i \in 1..Len(t.rows) : t.rows[i][c].t # "nan"}
    IN {Table(t.cols, r \o Pick(t.rows, (1..Len(t.rows)) \ keyed)) :
           r \in Arrangements(t.rows, c, keyed)}

Ok(t) == [kind |-> "table", tbl |-> t, exc |-> ""]
Raised(e) == [kind |-> "raised", tbl |-> EmptyTable, exc |-> e]
NoResult == [kind |-> "none", tbl |-> EmptyTable, exc |-> ""]

\* process_dengue_data(t) of variant v: the set of its outcomes.  Each is the
\* returned table or the exception (ret), with the state the caller's table is
\* left in (arg): the conversions assign into the caller's table, fillna and
\* sort_values build new ones.
Process(v, t) ==
    IF IsEmpty(t) THEN {[ret |-> Ok(t), arg |-> t]}
    ELSE LET co == Coerce(v, t)
             fi == FillNa(co)
             c == SortCol(v, t.cols)
         IN IF c = "" THEN {[ret |-> Ok(fi), arg |-> co]}
            ELSE IF SortRaises(fi, c) THEN {[ret |-> Raised("TypeError"), arg |-> co]}
            ELSE {[ret |-> Ok(s), arg |-> co] : s \in SortValues(fi, c)}

(***************************************************************************)
(* The fetch functions                                                     *)
(***************************************************************************)
StateData == "app.fetch_infodengue_state_data"
MunicipalityData == "app.fetch_municipality_data"
SimpleData == "app_simple.fetch_infodengue_data"
FdData == "fetch_data.fetch_infodengue_data"
FdCityData == "fetch_data.fetch_infodengue_city_data"

BulkFns == {StateData, FdData}
SingleFns == {MunicipalityData, SimpleData, FdCityData}
FetchFns == BulkFns \cup SingleFns

\* What one requests.get(...) / raise_for_status() / response.json() ends in.
TransportFailures == {"http_error", "timeout", "conn_error"}
Failures == TransportFailures \cup {"not_json", "bad_shape"}

\* The exception a failing outcome raises.  HTTPError, Timeout, ConnectionError
\* and requests' JSONDecodeError are RequestExceptions; data.get(...) on JSON
\* that is not an object raises AttributeError.
ExcOf(k) == IF k = "bad_shape" THEN "AttributeError" ELSE "RequestException"

\* the except clause of the function: Exception in app.py and app_simple.py,
\* requests.exceptions.RequestException in fetch_data.py
Catches(f, e) == IF f \in {FdData, FdCityData} THEN e = "RequestException" ELSE TRUE

\* a handler that keeps the pages fetched before the failure
OnExceptionPartial(f, e) ==
    [ret |-> Ok(Table({"geocode"}, [i \in 1..Len(all_items) |->
                [k \in {"geocode"} |-> Cell("int", all_items[i].id)]])),
     ui |-> {}]

\* what the function hands back when exception e is raised inside its try
\* block: its except clause returns pd.DataFrame(), and
\* fetch_infodengue_state_data also calls st.warning
OnException(f, e) ==
    IF Catches(f, e)
    THEN [ret |-> Ok(EmptyTable), ui |-> IF f = StateData THEN {"warning"} ELSE {}]
    ELSE [ret |-> Raised(e), ui |-> {}]

\* An item of the upstream: a JSON object with its identifier and, when it has
\* the key, its data_iniSE.
NoKey == Cell("nokey", 0)
ItemDates == {Cell("datestr", 1), Cell("datestr", 2), NoKey}
ItemId(p, j) == 10 * p + j
ItemsOfPage(p, n) ==
    {[j \in 1..n |-> [id |-> ItemId(p, j), d |-> ds[j]]] : ds \in [1..n -> ItemDates]}

\* pd.DataFrame(list of objects): the columns are the keys any object has, a
\* key an object lacks is a missing value
FromRecords(items) ==
    LET cols == IF items = <<>> THEN {}
                ELSE {"geocode"} \cup
                     (IF \E i \in 1..Len(items) : items[i].d # NoKey
                      THEN {"data_iniSE"} ELSE {})
    IN Table(cols, [i \in 1..Len(items) |->
           [k \in cols |-> IF k = "geocode" THEN Cell("int", items[i].id)
                           ELSE IF items[i].d = NoKey THEN NaN ELSE items[i].d]])

\* the pagination object of page 1: with total_pages, or without it
Paginations ==
    {[has |-> TRUE, tp |-> n] : n \in 0..MaxTotalPages} \cup {[has |-> FALSE, tp |-> 0]}

\* pagination.get("total_pages", 1)
GetTotalPages(a) == IF a.has THEN a.tp ELSE 1

\* a loop bound that is one page too far
RangeStopOffByOne(f, tp) == IF f = StateData THEN Min(tp + 1, 7) ELSE tp + 2

\* range(2, min(total_pages + 1, 6)) in app.py, range(2, total_pages + 1) in
\* fetch_data.py: the first page number the loop does not request
PageStop == 6
RangeStop(f, tp) == IF f = StateData THEN Min(tp + 1, PageStop) ELSE tp + 1

\* a loop that puts each new page in front of the earlier ones
ExtendFront(all, items) == items \o all

\* all_items.extend(data.get("items", []))
Extend(all, items) == all \o items

\* df = pd.DataFrame(all_items) and what follows it up to the return
ReturnBulk(f, items) ==
    LET t == FromRecords(items)
    IN IF f = StateData /\ ~IsEmpty(t)
       THEN {IF o.ret.kind = "raised" THEN OnException(f, o.ret.exc)
             ELSE [ret |-> o.ret, ui |-> {}] : o \in Process("app", t)}
       ELSE {[ret |-> Ok(t), ui |-> {}]}

\* st.cache_data: the keys are (function, arguments)
GeoData == "app.get_goias_geodata"
CacheKeys ==
    {[f |-> StateData, arg |-> "dengue"], [f |-> StateData, arg |-> "zika"],
     [f |-> GeoData, arg |-> ""]}
NoEntry == [has |-> FALSE, val |-> "", at |-> 0, failed |-> FALSE]
NoCall == [key |-> [f |-> "", arg |-> ""], hit |-> FALSE, ret |-> "", flip |-> FALSE]

InitCacheIdle ==
    /\ cache = [k \in CacheKeys |-> NoEntry]
    /\ now = 0 /\ ticks = 0
    /\ upstream = [k \in CacheKeys |-> 0]
    /\ last = NoCall

\* no view is being built
NoView == [kind |-> "none", exc |-> "", val |-> <<>>]
NoGdf == [has |-> FALSE, codes |-> {}]
InitViewIdle ==
    /\ script = "app" /\ view_df = EmptyTable /\ gdf = NoGdf
    /\ vpc = "off" /\ df_latest = NoResult /\ view = NoView

InitAllIdle ==
    /\ apc = "off" /\ pos = 0 /\ fetched = <<>> /\ all_data = <<>> /\ all_ret = NoResult

InitMainIdle ==
    /\ mpc = "off" /\ app = "app" /\ view_type = "" /\ df_state = EmptyTable
    /\ main_gdf = NoGdf /\ df_muni = NoResult /\ built = <<>> /\ muni_calls = <<>>

InitProcIdle ==
    /\ df = EmptyTable /\ df0 = EmptyTable /\ out1 = NoResult /\ out2 = NoResult
    /\ ppc = "off" /\ variant = "app"

InitFetch ==
    /\ fn = "" /\ pc = "idle" /\ page = 0 /\ total_pages = 0
    /\ announced = [has |-> FALSE, tp |-> 0]
    /\ all_items = <<>> /\ reqs = <<>> /\ served = <<>> /\ shape = ""
    /\ cause = "none" /\ failed_at = 0 /\ result = NoResult /\ ui = {}

Init ==
    /\ InitFetch /\ InitProcIdle /\ InitCacheIdle /\ InitViewIdle
    /\ InitAllIdle /\ InitMainIdle

\* the caller calls fetch function f
Call(f) ==
    /\ pc = "idle"
    /\ fn' = f
    /\ pc' = IF f \in BulkFns THEN "page1" ELSE "single"
    /\ UNCHANGED <<page, announced, total_pages, all_items, reqs, served, shape, cause, failed_at, result, ui>>
    /\ UNCHANGED <<procVars, cacheVars, viewVars, allVars, mainVars>>

\* the request of page p ends in failure k: control goes to the except clause
FailAt(p, k) ==
    LET h == OnException(fn, ExcOf(k))
    IN /\ reqs' = Append(reqs, p)
       /\ cause' = k
       /\ failed_at' = p
       /\ result' = h.ret
       /\ ui' = h.ui
       /\ pc' = "done"
       /\ UNCHANGED <<fn, page, announced, total_pages, all_items, served, shape>>
       /\ UNCHANGED <<procVars, cacheVars, viewVars, allVars, mainVars>>

\* the first requests.get: page 1, then items, pagination and total_pages
RequestPage1Ok ==
    /\ pc = "page1"
    /\ \E n \in 0..MaxItems, a \in Paginations :
       \E items \in ItemsOfPage(1, n) :
          /\ reqs' = Append(reqs, 1)
          /\ announced' = a
          /\ total_pages' = GetTotalPages(a)
          /\ all_items' = items
          /\ served' = [j \in 1..n |-> items[j].id]
          /\ page' = 2
          /\ pc' = "loop"
    /\ UNCHANGED <<fn, shape, cause, failed_at, result, ui>>
    /\ UNCHANGED <<procVars, cacheVars, viewVars, allVars, mainVars>>

RequestPage1Fail ==
    /\ pc = "page1"
    /\ \E k \in Failures : FailAt(1, k)

\* one turn of the for loop: params["page"] = page, requests.get, extend
RequestNextPageOk ==
    /\ pc = "loop"
    /\ page < RangeStop(fn, total_pages)
    /\ \E n \in 0..(MaxItems - Len(all_items)) :
       \E items \in ItemsOfPage(page, n) :
          /\ reqs' = Append(reqs, page)
          /\ all_items' = Extend(all_items, items)
          /\ served' = served \o [j \in 1..n |-> items[j].id]
          /\ page' = page + 1
    /\ UNCHANGED <<fn, pc, announced, total_pages, shape, cause, failed_at, result, ui>>
    /\ UNCHANGED <<procVars, cacheVars, viewVars, allVars, mainVars>>

RequestNextPageFail ==
    /\ pc = "loop"
    /\ page < RangeStop(fn, total_pages)
    /\ \E k \in Failures : FailAt(page, k)

\* the loop is over: build the table, process it (app.py), return it
Return ==
    /\ pc = "loop"
    /\ page >= RangeStop(fn, total_pages)
    /\ \E r \in ReturnBulk(fn, all_items) :
          /\ result' = r.ret
          /\ ui' = r.ui
    /\ cause' = "ok"
    /\ pc' = "done"
    /\ UNCHANGED <<fn, page, announced, total_pages, all_items, reqs, served, shape, failed_at>>
    /\ UNCHANGED <<procVars, cacheVars, viewVars, allVars, mainVars>>

(***************************************************************************)
(* The single-entity endpoint: one request, then the normalisation of the  *)
(* JSON body, which is a list of objects, one object, or a scalar.         *)
(***************************************************************************)
ScalarShapes == {"null", "number", "string", "bool"}
Shapes == {"list", "object"} \cup ScalarShapes

ScalarCell(sh) ==
    CASE sh = "null" -> NaN
      [] sh = "number" -> Cell("int", 7)
      [] sh = "string" -> Cell("str", 1)
      [] OTHER -> Cell("bool", 1)

\* pd.DataFrame([data]) for a scalar: one row, one column labelled 0
ScalarRow(sh) == Table({"0"}, <<[k \in {"0"} |-> ScalarCell(sh)]>>)

\* app_simple.py: for col in [...]: try: df[col] = pd.to_datetime(df[col])
\* except: pass.  Without errors='coerce' a string that is no date raises and
\* the column stays as it was.
SimpleDates(t) ==
    LET strict(c) == \A i \in 1..Len(t.rows) : t.rows[i][c].t # "str"
    IN Table(t.cols, [i \in 1..Len(t.rows) |->
           [k \in t.cols |->
               IF k \in {"data_iniSE", "data_ini_SE", "data"} /\ strict(k)
               THEN ToDatetime(t.rows[i][k]) ELSE t.rows[i][k]]])

\* from data = response.json() to the return, for a body of shape sh holding
\* the objects items (one for an object, none for a scalar)
ReturnSingle(f, sh, items) ==
    CASE f = MunicipalityData ->
           LET t == IF sh \in {"list", "object"} THEN FromRecords(items)
                    ELSE ScalarRow(sh)
           IN IF IsEmpty(t) THEN {[ret |-> Ok(t), ui |-> {}]}
              ELSE {IF o.ret.kind = "raised" THEN OnException(f, o.ret.exc)
                    ELSE [ret |-> o.ret, ui |-> {}] : o \in Process("app", t)}
      [] f = SimpleData ->
           IF sh \in {"list", "object"}
           THEN {[ret |-> Ok(SimpleDates(FromRecords(items))), ui |-> {}]}
           ELSE {[ret |-> Ok(EmptyTable), ui |-> {}]}
      [] OTHER ->
           \* pd.DataFrame(data): a list of objects gives its rows, None the
           \* empty table; an object of scalar values and a scalar raise
           \* ValueError
           IF sh = "list" THEN {[ret |-> Ok(FromRecords(items)), ui |-> {}]}
           ELSE IF sh = "null" THEN {[ret |-> Ok(EmptyTable), ui |-> {}]}
           ELSE {OnException(f, "ValueError")}

BodiesOf(sh) ==
    IF sh = "list" THEN UNION {ItemsOfPage(1, n) : n \in 0..MaxItems}
    ELSE IF sh = "object" THEN ItemsOfPage(1, 1)
    ELSE {<<>>}

FetchSingleOk ==
    /\ pc = "single"
    /\ \E sh \in Shapes :
       \E items \in BodiesOf(sh) :
       \E r \in ReturnSingle(fn, sh, items) :
          /\ shape' = sh
          /\ served' = [j \in 1..Len(items) |-> items[j].id]
          /\ result' = r.ret
          /\ ui' = r.ui
    /\ reqs' = Append(reqs, 1)
    /\ cause' = "ok"
    /\ pc' = "done"
    /\ UNCHANGED <<fn, page, announced, total_pages, all_items, failed_at>>
    /\ UNCHANGED <<procVars, cacheVars, viewVars, allVars, mainVars>>

FetchSingleFail ==
    /\ pc = "single"
    /\ \E k \in Failures \ {"bad_shape"} : FailAt(1, k)

Next ==
    \/ \E f \in FetchFns : Call(f)
    \/ RequestPage1Ok
    \/ RequestPage1Fail
    \/ RequestNextPageOk
    \/ RequestNextPageFail
    \/ Return
    \/ FetchSingleOk
    \/ FetchSingleFail

Spec == Init /\ [][Next]_vars

(***************************************************************************)
(* Properties of the fetch functions                                       *)
(***************************************************************************)
Done == pc = "done"
RowIds(t) == [i \in 1..Len(t.rows) |-> t.rows[i]["geocode"].v]
ItemIds(items) == [i \in 1..Len(items) |-> items[i].id]
Ascending(s) == \A i, j \in 1..Len(s) : i < j => s[i] < s[j]
FirstPages(n) == [i \in 1..n |-> i]
\* some items carry data_iniSE and some lack it: process_dengue_data raises
MixedDates(items) ==
    \E i, j \in 1..Len(items) : items[i].d # NoKey /\ items[j].d = NoKey

C2_RequestCount ==
    LET tp == IF announced.has THEN announced.tp ELSE 1
    IN /\ fn = StateData => Len(reqs) <= 5
       /\ (fn \in BulkFns /\ Done /\ cause = "ok") =>
             Len(reqs) = IF fn = StateData THEN Min(Max(tp, 1), 5) ELSE Max(tp, 1)

\* app.py was told of more than 5 pages and stopped after 5 requests
C2_Witness ==
    /\ fn = StateData /\ Done /\ cause = "ok"
    /\ announced.has /\ announced.tp > 5
    /\ Len(reqs) = 5

\* C3: a non-2xx response or a network failure at page k ends a bulk fetch:
\* page k is the last request, and the result is the empty table.
C3_AbortOnFailure ==
    (fn \in BulkFns /\ cause \in TransportFailures) =>
        /\ Done
        /\ failed_at >= 1
        /\ reqs = FirstPages(failed_at)
        /\ result = Ok(EmptyTable)

\* page 2 or later failed after items had been fetched
C3_Witness ==
    /\ fn \in BulkFns /\ cause \in TransportFailures /\ Done
    /\ failed_at >= 2
    /\ all_items # <<>>
    /\ announced.tp > failed_at
    /\ result = Ok(EmptyTable)

\* C4: whatever the upstream does, a fetch function returns a table, and the
\* empty table when the request failed or the body has not the expected shape.
C4_NoFaultReachesCaller ==
    Done =>
        /\ result.kind = "table"
        /\ (cause \in Failures \/ shape \in ScalarShapes) => IsEmpty(result.tbl)

\* C5: what the caller observes after a transport failure (the value returned
\* and the messages put on the page) differs from what it observes after a
\* successful response with zero records.
ZeroRecordOutcomes(f) ==
    IF f \in BulkFns THEN ReturnBulk(f, <<>>) ELSE ReturnSingle(f, "list", <<>>)

C5_FailureDistinctFromNoData ==
    (Done /\ cause \in TransportFailures) =>
        [ret |-> result, ui |-> ui] \notin ZeroRecordOutcomes(fn)

\* C8: the single-entity fetches turn a JSON array into one row per element,
\* a JSON object into exactly one row, and any other body into the empty
\* table, without an error.
C8_Normalisation ==
    (fn \in SingleFns /\ Done /\ cause = "ok") =>
        /\ result.kind = "table"
        /\ shape = "list" => Len(result.tbl.rows) = Len(served)
        /\ shape = "object" => Len(result.tbl.rows) = 1
        /\ shape \in ScalarShapes => IsEmpty(result.tbl)

(***************************************************************************)
(* process_dengue_data on its own: a caller hands it a table, then hands   *)
(* it the table it returned.                                               *)
(***************************************************************************)
DateCells == {Cell("datestr", 1), Cell("datestr", 2), Cell("str", 1), NaN}
NumberCells == {Cell("int", 1), Cell("numstr", 2), Cell("str", 1), NaN}
LevelCells == {Cell("int", 2), Cell("int", 9), Cell("numstr", 2), NaN}

CellsOf(c) ==
    CASE c \in {"data_iniSE", "data_ini_SE"} -> DateCells
      [] c = "casos" -> NumberCells
      [] OTHER -> LevelCells

\* the columns of the input tables, next to the row's identifier
ColumnSets ==
    {{}, {"casos"}, {"data_iniSE"}, {"data_ini_SE"}, {"data_iniSE", "data_ini_SE"},
     {"data_iniSE", "casos"}, {"data_ini_SE", "nivel"}}

\* the rows over the columns cs, without the identifier
RowsOf(cs) ==
    {r \in [cs -> UNION {CellsOf(c) : c \in cs}] : \A k \in cs : r[k] \in CellsOf(k)}

\* the tables of n rows with the columns cs; row i is identified by i
TablesOf(cs, n) ==
    {Table(cs \cup {"geocode"},
           [i \in 1..n |-> [k \in cs \cup {"geocode"} |->
               IF k = "geocode" THEN Cell("int", i) ELSE rs[i][k]]]) :
        rs \in [1..n -> RowsOf(cs)]}

InitFetchIdle ==
    /\ fn = "" /\ pc = "off" /\ page = 0 /\ total_pages = 0
    /\ announced = [has |-> FALSE, tp |-> 0]
    /\ all_items = <<>> /\ reqs = <<>> /\ served = <<>> /\ shape = ""
    /\ cause = "none" /\ failed_at = 0 /\ result = NoResult /\ ui = {}

InitProc ==
    /\ InitFetchIdle
    /\ InitAllIdle /\ InitMainIdle
    /\ InitCacheIdle
    /\ InitViewIdle
    /\ variant \in {"app", "fd"}
    /\ \E cs \in ColumnSets, n \in 0..MaxRows :
          df \in IF n = 0 THEN {EmptyTable} ELSE TablesOf(cs, n)
    /\ df0 = df
    /\ out1 = NoResult /\ out2 = NoResult
    /\ ppc = "start"

\* out1 = process_dengue_data(df)
ProcessOnce ==
    /\ ppc = "start"
    /\ \E o \in Process(variant, df) :
          /\ out1' = o.ret
          /\ df' = o.arg
    /\ ppc' = "once"
    /\ UNCHANGED <<df0, out2, variant>>
    /\ UNCHANGED <<fetchVars, cacheVars, viewVars, allVars, mainVars>>

\* out2 = process_dengue_data(out1)
ProcessTwice ==
    /\ ppc = "once"
    /\ out1.kind = "table"
    /\ \E o \in Process(variant, out1.tbl) : out2' = o.ret
    /\ ppc' = "twice"
    /\ UNCHANGED <<df, df0, out1, variant>>
    /\ UNCHANGED <<fetchVars, cacheVars, viewVars, allVars, mainVars>>

NextProc == ProcessOnce \/ ProcessTwice

SpecProc == InitProc /\ [][NextProc]_vars

(***************************************************************************)
(* Properties of process_dengue_data                                       *)
(***************************************************************************)
\* C9: process_dengue_data(process_dengue_data(t)) completes and equals
\* process_dengue_data(t), rows in the same order.
C9_Idempotent ==
    /\ ppc \in {"once", "twice"} => out1.kind = "table"
    /\ ppc = "twice" => out2 = out1

\* the date column of a table: data_iniSE, or else data_ini_SE, or none
DateColOf(cols) ==
    IF "data_iniSE" \in cols THEN "data_iniSE"
    ELSE IF "data_ini_SE" \in cols THEN "data_ini_SE" ELSE ""

\* C10: the rows process_dengue_data returns are in non-decreasing order of
\* the table's date column, and in the input order when the table has none.
C10_SortedByDate ==
    (ppc = "once" /\ ~IsEmpty(df0)) =>
        /\ out1.kind = "table"
        /\ Len(out1.tbl.rows) = Len(df0.rows)
        /\ LET c == DateColOf(df0.cols)
               r == out1.tbl.rows
           IN IF c = "" THEN RowIds(out1.tbl) = RowIds(df0)
              ELSE \A i, j \in 1..Len(r) : i < j => r[i][c].v <= r[j][c].v

\* the values pd.to_numeric and pd.to_datetime cannot convert
FailsNumeric(c) == c.t \notin {"int", "numstr"}
FailsDate(c) == c.t \notin {"ts", "datestr", "int"}
Zero == Cell("int", 0)

\* C11: process_dengue_data returns a table without a missing cell, in which
\* every value of a listed numeric column that failed the numeric coercion,
\* every value of a date column that failed to parse and every cell that was
\* missing in the input is the number zero.
C11_ZeroFilled ==
    (ppc = "once" /\ ~IsEmpty(df0)) =>
        /\ out1.kind = "table"
        /\ \A r \in Range(out1.tbl.rows) : \A k \in out1.tbl.cols : r[k].t # "nan"
        /\ \A i \in 1..Len(df0.rows) : \E r \in Range(out1.tbl.rows) :
              /\ r["geocode"] = df0.rows[i]["geocode"]
              /\ \A k \in df0.cols :
                    LET c == df0.rows[i][k]
                    IN (\/ c.t = "nan"
                        \/ k \in NumericCols(variant) /\ FailsNumeric(c)
                        \/ k \in DateCols(variant) /\ FailsDate(c)) => r[k] = Zero

\* C12: process_dengue_data leaves the table it was handed as it was: the
\* same cell values, column types and row order.
C12_Pure == ppc \in {"once", "twice"} => df = df0

\* C13: in a table that process_dengue_data returns every nivel is an integer
\* of 1..4 or the sentinel for "unknown" (read here as the zero that fillna
\* writes, the only candidate the code has).
C13_NivelTyped ==
    (ppc = "once" /\ out1.kind = "table" /\ "nivel" \in out1.tbl.cols) =>
        \A r \in Range(out1.tbl.rows) : r["nivel"].t = "int" /\ r["nivel"].v \in 0..4

(***************************************************************************)
(* st.cache_data(ttl=...): the decorated function runs when its key has no *)
(* unexpired entry, and its return value is stored with the time of the    *)
(* call.  An entry is looked at only by a call for its key.                *)
(***************************************************************************)
TtlEpi == 3600
TtlGeo == 86400

\* every cached function kept for one hour
TtlOfOneHour(f) == TtlEpi

\* the ttl argument of the function's decorator
TtlOf(f) == IF f = GeoData THEN TtlGeo ELSE TtlEpi

\* a cache that serves no entry stored by a run that failed
FreshUnlessFailed(e, f) == e.has /\ ~e.failed /\ now < e.at + TtlOf(f)

\* the entry e of function f can still be served
Fresh(e, f) == e.has /\ now < e.at + TtlOf(f)

\* what the decorated function may return: the empty table, or data
Values == {"empty", "data"}

\* how a run of the decorated function f ends: a fetch returns the empty
\* table or data, or its request fails and its except clause returns the
\* empty table; get_goias_geodata returns the municipalities, or None from
\* its except clause.  What the except clause returns is the function's
\* return value.  The entry remembers whether the run failed; no caller can
\* see it.
Runs(f) ==
    IF f = GeoData
    THEN {[val |-> "data", failed |-> FALSE], [val |-> "none", failed |-> TRUE]}
    ELSE {[val |-> v, failed |-> FALSE] : v \in Values} \cup
         {[val |-> "empty", failed |-> TRUE]}

\* the clock advances by half an hour or by half a day
Advances == {1800, 43200}

InitCache ==
    /\ InitFetchIdle
    /\ InitAllIdle /\ InitMainIdle
    /\ InitProcIdle
    /\ InitCacheIdle
    /\ InitViewIdle

Tick ==
    /\ ticks < MaxTicks
    /\ \E d \in Advances : now' = now + d
    /\ ticks' = ticks + 1
    /\ UNCHANGED <<cache, upstream, last>>
    /\ UNCHANGED <<fetchVars, procVars, viewVars, allVars, mainVars>>

\* a call of the cached function of key k that finds an unexpired entry
CacheHit(k) ==
    /\ Fresh(cache[k], k.f)
    /\ last' = [key |-> k, hit |-> TRUE, ret |-> cache[k].val, flip |-> ~last.flip]
    /\ UNCHANGED <<cache, now, ticks, upstream>>
    /\ UNCHANGED <<fetchVars, procVars, viewVars, allVars, mainVars>>

\* a call that finds none: the function runs and its value is stored
CacheMiss(k) ==
    /\ ~Fresh(cache[k], k.f)
    /\ upstream[k] < MaxFetches
    /\ \E r \in Runs(k.f) :
          /\ cache' = [cache EXCEPT ![k] =
                          [has |-> TRUE, val |-> r.val, at |-> now, failed |-> r.failed]]
          /\ last' = [key |-> k, hit |-> FALSE, ret |-> r.val, flip |-> ~last.flip]
    /\ upstream' = [upstream EXCEPT ![k] = @ + 1]
    /\ UNCHANGED <<now, ticks>>
    /\ UNCHANGED <<fetchVars, procVars, viewVars, allVars, mainVars>>

NextCache ==
    \/ Tick
    \/ \E k \in CacheKeys : CacheHit(k)
    \/ \E k \in CacheKeys : CacheMiss(k)

SpecCache == InitCache /\ [][NextCache]_vars

\* C7: a call of a cached function runs the function (issues requests) exactly
\* when its key has no entry younger than the TTL, 3600 s for the
\* epidemiological fetches and 86400 s for get_goias_geodata; otherwise it
\* returns the stored value; an entry changes only in a call for its key that
\* runs the function, and nothing runs without a call.
C7_Step ==
    LET called == last'.flip # last.flip
        k == last'.key
        ttl == IF k.f = GeoData THEN 86400 ELSE 3600
        unexpired == cache[k].has /\ now - cache[k].at < ttl
    IN /\ ~called => (upstream' = upstream /\ cache' = cache)
       /\ called =>
             /\ \A j \in CacheKeys \ {k} :
                   upstream'[j] = upstream[j] /\ cache'[j] = cache[j]
             /\ unexpired =>
                   /\ upstream'[k] = upstream[k]
                   /\ cache'[k] = cache[k]
                   /\ last'.ret = cache[k].val
             /\ ~unexpired =>
                   /\ upstream'[k] = upstream[k] + 1
                   /\ cache'[k].has
                   /\ cache'[k].val = last'.ret
                   /\ cache'[k].at = now

C7_CacheTTL == [][C7_Step]_vars

\* an entry expired and was fetched again, and a later call within the TTL
\* was served from it
C7_Witness ==
    /\ last.hit
    /\ upstream[last.key] = 2
    /\ now > cache[last.key].at
    /\ last.ret = cache[last.key].val

\* C22: once a run of a cached fetch has failed, every call with the same
\* arguments that comes less than 3600 s after it issues no request and
\* returns the empty table that run returned.
C22_Step ==
    LET called == last'.flip # last.flip
        k == last'.key
    IN (/\ called
        /\ k.f # GeoData
        /\ cache[k].has /\ cache[k].failed
        /\ now - cache[k].at < 3600) =>
           /\ upstream' = upstream
           /\ cache' = cache
           /\ last'.ret = "empty"

C22_FailureMemoized == [][C22_Step]_vars

\* a fetch failed, time passed, and a call within the hour was answered with
\* the empty table of the failed run
C22_Witness ==
    /\ last.hit
    /\ last.key.f = StateData
    /\ cache[last.key].failed
    /\ now > cache[last.key].at
    /\ last.ret = "empty"
    /\ upstream[last.key] = 1

(***************************************************************************)
(* The views: the functions that turn the fetched table into the summary   *)
(* metrics, the charts, the map and the municipalities table.  A view      *)
(* returns a value, returns None, or raises.                               *)
(***************************************************************************)
MaxRecords == 2      \* rows of a table handed to a view

Value(x) == [kind |-> "value", exc |-> "", val |-> x]
Null == [kind |-> "null", exc |-> "", val |-> <<>>]
Raises(e) == [kind |-> "raised", exc |-> e, val |-> <<>>]

\* df.sort_values(c): KeyError without the column
SortBy(t, c) ==
    IF c \notin t.cols THEN {Raised("KeyError")}
    ELSE IF SortRaises(t, c) THEN {Raised("TypeError")}
    ELSE {Ok(x) : x \in SortValues(t, c)}

\* a grouping that keeps the first row of each group
GroupHead(t, g) ==
    LET n == Len(t.rows)
        keep == {i \in 1..n : /\ t.rows[i][g].t # "nan"
                              /\ \A j \in 1..(i - 1) : t.rows[j][g] # t.rows[i][g]}
    IN Table(t.cols, Pick(t.rows, keep))

\* groupby(g).tail(1): the last row of each group, in the order of the table;
\* rows without a key are in no group
GroupTail(t, g) ==
    LET n == Len(t.rows)
        keep == {i \in 1..n : /\ t.rows[i][g].t # "nan"
                              /\ \A j \in (i + 1)..n : t.rows[j][g] # t.rows[i][g]}
    IN Table(t.cols, Pick(t.rows, keep))

\* tail(len(df.drop_duplicates(subset=['municipio_nome']))): as many of the
\* last rows as there are distinct names
TailByName(t) ==
    LET n == Len(t.rows)
        k == Cardinality({t.rows[i]["municipio_nome"] : i \in 1..n})
    IN Table(t.cols, Pick(t.rows, (n - k + 1)..n))

\* the date and the municipality column of the snapshot: fixed in app.py,
\* chosen by what the table has in app_simple.py
DateCol(s, cols) ==
    IF s = "app" \/ "data_iniSE" \in cols THEN "data_iniSE" ELSE "data_ini_SE"
GeocodeCol(s, cols) ==
    IF s = "app" \/ "municipio_geocodigo" \in cols THEN "municipio_geocodigo"
    ELSE "geocode"

\* df_latest = df.sort_values(date).groupby(municipality).tail(1), with the
\* fallback of app_simple.py for a table without municipality column
Latest(s, t) ==
    LET dc == DateCol(s, t.cols)
        gc == GeocodeCol(s, t.cols)
        after(x) ==
            IF gc \in x.cols THEN Ok(GroupTail(x, gc))
            ELSE IF s = "app" THEN Raised("KeyError")
            ELSE IF "municipio_nome" \in x.cols THEN Ok(TailByName(x))
            ELSE Raised("KeyError")
    IN {IF o.kind = "table" THEN after(o.tbl) ELSE o : o \in SortBy(t, dc)}

\* the sum of a column, missing values skipped
SumCol(t, c) ==
    LET F[i \in 0..Len(t.rows)] ==
            IF i = 0 THEN 0 ELSE F[i - 1] + t.rows[i][c].v
    IN F[Len(t.rows)]

\* the cells of a set in ascending order
RECURSIVE Ascend(_)
Ascend(S) ==
    IF S = {} THEN <<>>
    ELSE LET m == CHOOSE x \in S : \A y \in S : x.v <= y.v
         IN <<m>> \o Ascend(S \ {m})

\* get_alert_level_info: levels.get(int(level), ("Desconhecido", "#95a5a6"))
get_alert_level_info(level) ==
    CASE level = 1 -> [name |-> "Verde", color |-> "#2ecc71"]
      [] level = 2 -> [name |-> "Amarelo", color |-> "#f39c12"]
      [] level = 3 -> [name |-> "Laranja", color |-> "#e67e22"]
      [] level = 4 -> [name |-> "Vermelho", color |-> "#e74c3c"]
      [] OTHER -> [name |-> "Desconhecido", color |-> "#95a5a6"]

\* nivel_names.get(i, f"Nivel {i}") and nivel_colors.get(i, "#95a5a6")
nivel_names(i) ==
    CASE i = 1 -> "Verde" [] i = 2 -> "Amarelo" [] i = 3 -> "Laranja"
      [] i = 4 -> "Vermelho" [] OTHER -> "Nivel " \o ToString(i)
nivel_colors(i) ==
    CASE i = 1 -> "#2ecc71" [] i = 2 -> "#f39c12" [] i = 3 -> "#e67e22"
      [] i = 4 -> "#e74c3c" [] OTHER -> "#95a5a6"

\* df_latest['nivel'].value_counts().sort_index() and the bars made of it:
\* one bar for each level that occurs, in ascending order; a missing nivel
\* is not counted; levels of different types have no order
Bars(t) ==
    LET n == Len(t.rows)
        levels == {t.rows[i]["nivel"] : i \in 1..n} \ {NaN}
        idx == Ascend(levels)
    IN IF \E a, b \in levels : a.t # b.t THEN Raises("TypeError")
       ELSE Value([i \in 1..Len(idx) |->
                [level |-> idx[i].v,
                 count |-> Cardinality({r \in 1..n : t.rows[r]["nivel"] = idx[i]}),
                 label |-> nivel_names(idx[i].v),
                 color |-> nivel_colors(idx[i].v)]])

\* a view of app_simple.py wraps its body in try/except and returns None
Guarded(s, r) == IF s = "app_simple" /\ r.kind = "raised" THEN Null ELSE r

\* create_alert_level_distribution (app.py), create_alert_distribution
\* (app_simple.py): the outcomes, each with the df_latest it computed
create_alert_level_distribution(s, t) ==
    IF IsEmpty(t) \/ "nivel" \notin t.cols THEN {[latest |-> NoResult, ret |-> Null]}
    ELSE {[latest |-> l,
           ret |-> Guarded(s, IF l.kind = "table" THEN Bars(l.tbl) ELSE Raises(l.exc))] :
              l \in Latest(s, t)}

MetricCols == {"casos", "casos_est", "Rt", "nivel"}

\* create_metrics_summary
create_metrics_summary(t) ==
    IF IsEmpty(t)
    THEN {[latest |-> NoResult,
           ret |-> Value([k \in {"total_casos", "total_casos_est", "media_rt",
                                 "municipios_alerta_vermelho"} |-> 0])]}
    ELSE {[latest |-> l,
           ret |-> IF l.kind # "table" THEN Raises(l.exc)
                   ELSE IF ~(MetricCols \subseteq l.tbl.cols) THEN Raises("KeyError")
                   ELSE LET x == l.tbl
                            n == Len(x.rows)
                            level(v) == Cardinality({i \in 1..n :
                                            x.rows[i]["nivel"] = Cell("int", v)})
                        IN Value(
                           "total_casos" :> SumCol(x, "casos") @@
                           "total_casos_est" :> SumCol(x, "casos_est") @@
                           "media_rt" :> SumCol(x, "Rt") \div n @@
                           "municipios_alerta_vermelho" :> level(4) @@
                           "municipios_alerta_laranja" :> level(3) @@
                           "municipios_alerta_amarelo" :> level(2) @@
                           "municipios_alerta_verde" :> level(1))] :
              l \in Latest("app", t)}

\* an aggregate that keeps the last record of each date
AggregateLast(t, dc, cs) ==
    LET n == Len(t.rows)
        dates == Ascend({t.rows[i][dc] : i \in 1..n} \ {NaN})
    IN [k \in 1..Len(dates) |->
          [date |-> dates[k].v,
           sums |-> [c \in cs |->
               LET last_row == CHOOSE i \in 1..n :
                       /\ t.rows[i][dc] = dates[k]
                       /\ \A j \in (i + 1)..n : t.rows[j][dc] # dates[k]
               IN t.rows[last_row][c].v]]]

\* df.groupby(dc).agg({c: 'sum' for c in cs}).reset_index(): one row for each
\* date, in ascending order
Aggregate(t, dc, cs) ==
    LET n == Len(t.rows)
        dates == Ascend({t.rows[i][dc] : i \in 1..n} \ {NaN})
    IN [k \in 1..Len(dates) |->
          [date |-> dates[k].v,
           sums |-> [c \in cs |->
               SumCol(Table(t.cols, Pick(t.rows, {i \in 1..n : t.rows[i][dc] = dates[k]})), c)]]]

\* create_time_series_chart of app.py and of app_simple.py
create_time_series_chart(s, t) ==
    IF s = "app"
    THEN IF IsEmpty(t) \/ "data_iniSE" \notin t.cols THEN Null
         ELSE IF ~({"casos_est", "casos"} \subseteq t.cols) THEN Raises("KeyError")
         ELSE Value(Aggregate(t, "data_iniSE", {"casos_est", "casos"}))
    ELSE LET present == {c \in {"data_iniSE", "data_ini_SE", "data"} : c \in t.cols}
             dc == IF "data_iniSE" \in present THEN "data_iniSE"
                   ELSE IF "data_ini_SE" \in present THEN "data_ini_SE" ELSE "data"
             cs == {"casos_est", "casos"} \cap t.cols
         IN IF IsEmpty(t) \/ present = {} \/ cs = {} THEN Null
            ELSE Value(Aggregate(t, dc, cs))

\* the columns px.choropleth_mapbox is told to use, next to those of gdf
\* (code_muni, name, geometry): the colour column and the hover_data
HoverCols == {"municipio_nome", "pop", "casos_est", "Rt", "p_inc100k", "nivel",
    "municipio_geocodigo"}
Metrics == {"p_inc100k", "nivel", "Rt"}

\* create_choropleth_map(gdf, df, metric): None, or the figure of gdf merged
\* (how='left') with df_latest: every geometry, with the record of its
\* municipality when df_latest has one
create_choropleth_map(g, t, metric) ==
    IF ~g.has \/ IsEmpty(t) THEN {[latest |-> NoResult, ret |-> Null]}
    ELSE {[latest |-> l,
           ret |-> IF l.kind # "table" THEN Null
                   ELSE IF ~(HoverCols \subseteq l.tbl.cols) THEN Null
                   ELSE Value([color |-> metric,
                               geoms |-> g.codes,
                               joined |-> {c \in g.codes : \E i \in 1..Len(l.tbl.rows) :
                                   l.tbl.rows[i]["municipio_geocodigo"] = Cell("int", c)}])] :
              l \in Latest("app", t)}

\* main of app.py, the municipality page: latest = df_muni.iloc[-1],
\* nivel = int(latest.get('nivel', 1)), get_alert_level_info(nivel)
single_record(t) ==
    IF IsEmpty(t) THEN Null
    ELSE LET latest == t.rows[Len(t.rows)]
             c == IF "nivel" \in t.cols THEN latest["nivel"] ELSE Cell("int", 1)
         IN IF c.t \notin {"int", "numstr"} THEN Raises("ValueError")
            ELSE Value([nivel |-> c.v, info |-> get_alert_level_info(c.v)])

DisplayCols == {"municipio_nome", "casos_est", "casos", "p_inc100k", "Rt", "nivel"}

\* create_municipalities_table (app_simple.py): the rows of df_latest; naming
\* the six columns fails when the table has not all six
create_municipalities_table(t) ==
    IF IsEmpty(t) THEN {[latest |-> NoResult, ret |-> Null]}
    ELSE {[latest |-> l,
           ret |-> IF l.kind # "table" THEN Null
                   ELSE IF ~(DisplayCols \subseteq l.tbl.cols) THEN Null
                   ELSE Value([i \in 1..Len(l.tbl.rows) |->
                              [c \in DisplayCols |-> l.tbl.rows[i][c]]])] :
              l \in Latest("app_simple", t)}

(***************************************************************************)
(* The tables the views are handed.  app.py hands them what                *)
(* fetch_infodengue_state_data returned: a processed table, without a      *)
(* missing cell and sorted by data_iniSE, or the empty table.              *)
(* app_simple.py hands them what fetch_all_municipalities_data returned:   *)
(* the unprocessed records, municipality after municipality.               *)
(***************************************************************************)
Municipalities == {1, 2}

ViewCols == {"index", "municipio_geocodigo", "municipio_nome", "data_iniSE",
    "nivel", "casos", "casos_est", "Rt", "pop", "p_inc100k"}

ViewDates(s) ==
    {Cell("ts", 1), Cell("ts", 2)} \cup (IF s = "app" THEN {} ELSE {NaN})
ViewLevels(s) ==
    {Cell("int", 1), Cell("int", 4), Cell("int", 9)} \cup (IF s = "app" THEN {} ELSE {NaN})

\* record i (its index label) of municipality m, with date d and level l
ViewRow(i, m, d, l) ==
    [k \in ViewCols |->
        CASE k = "index" -> Cell("int", i)
          [] k = "municipio_geocodigo" -> Cell("int", m)
          [] k = "municipio_nome" -> Cell("str", m)
          [] k = "data_iniSE" -> d
          [] k = "nivel" -> l
          [] k = "casos" -> Cell("int", i)
          [] k = "casos_est" -> Cell("int", 5)
          [] k = "Rt" -> Cell("int", 2)
          [] k = "pop" -> Cell("int", 100)
          [] OTHER -> Cell("int", 3)]

\* the order the records arrive in: by date from process_dengue_data, by
\* municipality from the loop of fetch_all_municipalities_data
Arrives(s, n, ms, ds) ==
    IF s = "app" THEN \A i, j \in 1..n : i < j => ds[i].v <= ds[j].v
    ELSE \A i, j, k \in 1..n : (i < j /\ j < k /\ ms[i] = ms[k]) => ms[j] = ms[i]

ViewTablesOf(s, n) ==
    IF n = 0 THEN {EmptyTable}
    ELSE {Table(ViewCols, [i \in 1..n |-> ViewRow(i, x[1][i], x[2][i], x[3][i])]) :
            x \in {y \in [1..n -> Municipalities] \X [1..n -> ViewDates(s)]
                            \X [1..n -> ViewLevels(s)] : Arrives(s, n, y[1], y[2])}}

\* the table without column c: the upstream sent no such key
Without(t, c) ==
    IF IsEmpty(t) THEN t
    ELSE Table(t.cols \ {c}, [i \in 1..Len(t.rows) |-> [k \in t.cols \ {c} |-> t.rows[i][k]]])

Droppable(s) ==
    IF s = "app"
    THEN {"", "data_iniSE", "municipio_geocodigo", "nivel", "casos", "casos_est", "Rt"}
    ELSE {""}

\* get_goias_geodata returned None, or the geometries of the municipalities
Gdfs == {NoGdf, [has |-> TRUE, codes |-> Municipalities]}

InitView ==
    /\ InitFetchIdle
    /\ InitAllIdle /\ InitMainIdle
    /\ InitProcIdle
    /\ InitCacheIdle
    /\ script \in {"app", "app_simple"}
    /\ \E n \in 0..MaxRecords, c \in Droppable(script) :
          view_df \in {Without(t, c) : t \in ViewTablesOf(script, n)}
    /\ gdf = NoGdf
    /\ vpc = "start" /\ df_latest = NoResult /\ view = NoView

MetricsSummary ==
    /\ vpc = "start" /\ script = "app"
    /\ \E o \in create_metrics_summary(view_df) :
          /\ df_latest' = o.latest
          /\ view' = o.ret
    /\ vpc' = "metrics"
    /\ UNCHANGED <<script, view_df, gdf>>
    /\ UNCHANGED <<fetchVars, procVars, cacheVars, allVars, mainVars>>

AlertDistribution ==
    /\ vpc = "start"
    /\ \E o \in create_alert_level_distribution(script, view_df) :
          /\ df_latest' = o.latest
          /\ view' = o.ret
    /\ vpc' = "distribution"
    /\ UNCHANGED <<script, view_df, gdf>>
    /\ UNCHANGED <<fetchVars, procVars, cacheVars, allVars, mainVars>>

TimeSeriesChart ==
    /\ vpc = "start"
    /\ view' = create_time_series_chart(script, view_df)
    /\ vpc' = "chart"
    /\ UNCHANGED <<script, view_df, gdf, df_latest>>
    /\ UNCHANGED <<fetchVars, procVars, cacheVars, allVars, mainVars>>

ChoroplethMap ==
    /\ vpc = "start" /\ script = "app"
    /\ \E g \in Gdfs, metric \in Metrics :
       \E o \in create_choropleth_map(g, view_df, metric) :
          /\ gdf' = g
          /\ df_latest' = o.latest
          /\ view' = o.ret
    /\ vpc' = "map"
    /\ UNCHANGED <<script, view_df>>
    /\ UNCHANGED <<fetchVars, procVars, cacheVars, allVars, mainVars>>

SingleRecord ==
    /\ vpc = "start" /\ script = "app"
    /\ view' = single_record(view_df)
    /\ vpc' = "single"
    /\ UNCHANGED <<script, view_df, gdf, df_latest>>
    /\ UNCHANGED <<fetchVars, procVars, cacheVars, allVars, mainVars>>

MunicipalitiesTable ==
    /\ vpc = "start" /\ script = "app_simple"
    /\ \E o \in create_municipalities_table(view_df) :
          /\ df_latest' = o.latest
          /\ view' = o.ret
    /\ vpc' = "table"
    /\ UNCHANGED <<script, view_df, gdf>>
    /\ UNCHANGED <<fetchVars, procVars, cacheVars, allVars, mainVars>>

NextView ==
    \/ MetricsSummary
    \/ AlertDistribution
    \/ TimeSeriesChart
    \/ ChoroplethMap
    \/ SingleRecord
    \/ MunicipalitiesTable

SpecView == InitView /\ [][NextView]_vars

(***************************************************************************)
(* Properties of the views                                                 *)
(***************************************************************************)
\* the fixed table of alert levels: name and colour of 1..4, and the one
\* pair of every other level
AlertLevelTable(l) ==
    CASE l = 1 -> <<"Verde", "#2ecc71">>
      [] l = 2 -> <<"Amarelo", "#f39c12">>
      [] l = 3 -> <<"Laranja", "#e67e22">>
      [] l = 4 -> <<"Vermelho", "#e74c3c">>
      [] OTHER -> <<"Desconhecido", "#95a5a6">>

\* C14: the bars of the alert distribution and the single-record view name
\* and colour a level by the same fixed table: 1..4 as Verde, Amarelo,
\* Laranja, Vermelho with their colours, every other integer as
\* ("Desconhecido", "#95a5a6").
C14_AlertLevelMapping ==
    /\ (vpc = "distribution" /\ view.kind = "value") =>
          \A i \in 1..Len(view.val) :
              <<view.val[i].label, view.val[i].color>> = AlertLevelTable(view.val[i].level)
    /\ (vpc = "single" /\ view.kind = "value") =>
          <<view.val.info.name, view.val.info.color>> = AlertLevelTable(view.val.nivel)

\* a snapshot was computed from a table in which every record has a date
SnapshotOfDated ==
    /\ df_latest.kind = "table"
    /\ \A i \in 1..Len(view_df.rows) : view_df.rows[i]["data_iniSE"].t # "nan"

C16_LastWins ==
    SnapshotOfDated =>
        \A l \in Range(df_latest.tbl.rows) : \A r \in Range(view_df.rows) :
            (/\ r["municipio_geocodigo"] = l["municipio_geocodigo"]
             /\ r["data_iniSE"] = l["data_iniSE"]) => r["index"].v <= l["index"].v

SumCounts(bars) ==
    LET F[i \in 0..Len(bars)] == IF i = 0 THEN 0 ELSE F[i - 1] + bars[i].count
    IN F[Len(bars)]

\* C17: the bars of the alert distribution are in ascending order of level
\* and their counts add up to the number of rows of the snapshot.
C17_CountsSumToSnapshot ==
    (vpc = "distribution" /\ df_latest.kind = "table") =>
        /\ view.kind = "value"
        /\ \A i, j \in 1..Len(view.val) : i < j => view.val[i].level < view.val[j].level
        /\ SumCounts(view.val) = Len(df_latest.tbl.rows)

MetricKeys == {"total_casos", "total_casos_est", "media_rt",
    "municipios_alerta_vermelho", "municipios_alerta_laranja",
    "municipios_alerta_amarelo", "municipios_alerta_verde"}

\* C18: on the empty table, which is what a failed fetch returns,
\* create_metrics_summary returns without raising, and reported cases,
\* estimated cases, mean Rt and the four per-level counts are all zero.
C18_MetricsOnEmpty ==
    (vpc = "metrics" /\ IsEmpty(view_df)) =>
        /\ view.kind = "value"
        /\ DOMAIN view.val = MetricKeys
        /\ \A k \in DOMAIN view.val : view.val[k] = 0

\* the columns a view of app.py reads
Needs(v) ==
    CASE v = "chart" -> {"data_iniSE", "casos", "casos_est"}
      [] v = "distribution" -> {"data_iniSE", "municipio_geocodigo", "nivel"}
      [] v = "map" -> {"data_iniSE", "municipio_geocodigo", "nivel", "casos_est", "Rt"}
      [] OTHER -> {"data_iniSE", "municipio_geocodigo", "nivel", "casos", "casos_est", "Rt"}

\* C19: handed a non-empty table without a column it reads, each of
\* create_time_series_chart, create_alert_level_distribution,
\* create_choropleth_map and create_metrics_summary returns None and does not
\* raise.
C19_MissingColumnGivesNone ==
    (/\ script = "app"
     /\ vpc \in {"chart", "distribution", "map", "metrics"}
     /\ ~IsEmpty(view_df)
     /\ ~(Needs(vpc) \subseteq view_df.cols)) => view.kind = "null"

\* C20: create_choropleth_map returns None when it has no geometries or no
\* data, and a figure it returns has a record joined to every geometry.
C20_NoPartialMap ==
    vpc = "map" =>
        /\ (~gdf.has \/ IsEmpty(view_df)) => view.kind = "null"
        /\ view.kind = "value" => view.val.joined = view.val.geoms

\* the sum of f over the set S
RECURSIVE SumOver(_, _)
SumOver(S, f) ==
    IF S = {} THEN 0
    ELSE LET i == CHOOSE x \in S : TRUE IN f[i] + SumOver(S \ {i}, f)

\* the chart was built of a table in which every record has a date
ChartOfDated ==
    /\ vpc = "chart" /\ view.kind = "value"
    /\ \A i \in 1..Len(view_df.rows) : view_df.rows[i]["data_iniSE"].t # "nan"

GOIAS_MUNICIPALITIES == <<
    [geocode |-> 5103403, name |-> "Goiania"],
    [geocode |-> 5104402, name |-> "Anapolis"],
    [geocode |-> 5103809, name |-> "Aparecida de Goiania"],
    [geocode |-> 5104304, name |-> "Abadia de Goias"],
    [geocode |-> 5104700, name |-> "Aragarcas"],
    [geocode |-> 5105002, name |-> "Arenopolis"],
    [geocode |-> 5105101, name |-> "Argolandia"],
    [geocode |-> 5105408, name |-> "Aurilandia"],
    [geocode |-> 5105507, name |-> "Avelinopolis"],
    [geocode |-> 5105606, name |-> "Baliza"],
    [geocode |-> 5105705, name |-> "Bom Jardim de Goias"],
    [geocode |-> 5105804, name |-> "Britania"],
    [geocode |-> 5106001, name |-> "Buriti Alegre"],
    [geocode |-> 5106100, name |-> "Cachoeira de Goias"],
    [geocode |-> 5106209, name |-> "Cacu"],
    [geocode |-> 5106308, name |-> "Caiaponia"],
    [geocode |-> 5106407, name |-> "Caldas Novas"],
    [geocode |-> 5106506, name |-> "Caldazinha"],
    [geocode |-> 5106605, name |-> "Campestre de Goias"],
    [geocode |-> 5106704, name |-> "Campinacu"]>>

\* the loop is followed over the first entries of the table
MaxMunicipalities == 3
Municipios == SubSeq(GOIAS_MUNICIPALITIES, 1, MaxMunicipalities)

\* the cell a municipality's name makes: the string, known by its place in
\* the table
NameCell(name) ==
    Cell("str", CHOOSE i \in 1..Len(GOIAS_MUNICIPALITIES) :
                    GOIAS_MUNICIPALITIES[i].name = name)

\* df[c] = x: column c holds x in every row, added if the table lacks it
SetCol(t, c, x) ==
    Table(t.cols \cup {c},
          [i \in 1..Len(t.rows) |->
              [k \in t.cols \cup {c} |-> IF k = c THEN x ELSE t.rows[i][k]]])

\* df['municipio_nome'] = municipality_name; df['municipio_geocodigo'] = geocode
Tagged(t, m) ==
    SetCol(SetCol(t, "municipio_nome", NameCell(m.name)),
           "municipio_geocodigo", Cell("int", m.geocode))

\* pd.concat(ts, ignore_index=True): the rows of the tables one after the
\* other over the union of their columns, missing where a table lacks one
RECURSIVE ConcatRows(_, _)
ConcatRows(ts, cols) ==
    IF ts = <<>> THEN <<>>
    ELSE [i \in 1..Len(Head(ts).rows) |->
             [k \in cols |-> IF k \in Head(ts).cols THEN Head(ts).rows[i][k] ELSE NaN]]
         \o ConcatRows(Tail(ts), cols)

Concat(ts) ==
    LET cols == UNION {ts[i].cols : i \in 1..Len(ts)}
    IN Table(cols, ConcatRows(ts, cols))

\* a loop that gives up at the first municipality without data
AfterFetchAbort(d, i) == IF IsEmpty(d) THEN Len(Municipios) + 1 ELSE i + 1

\* the for loop takes the next entry whatever the fetch returned
AfterFetch(d, i) == i + 1

\* rows collected so far
RowsSoFar == IF all_data = <<>> THEN 0 ELSE Len(Concat(all_data).rows)

InitAll ==
    /\ InitFetchIdle
    /\ InitProcIdle
    /\ InitCacheIdle
    /\ InitViewIdle
    /\ InitMainIdle
    /\ apc = "loop" /\ pos = 1 /\ fetched = <<>> /\ all_data = <<>>
    /\ all_ret = NoResult

\* the body of the loop for the table d that fetch_infodengue_data returned
Iterate(d, failed) ==
    LET m == Municipios[pos]
    IN /\ fetched' = Append(fetched, [geocode |-> m.geocode, failed |-> failed, df |-> d])
       /\ all_data' = IF IsEmpty(d) THEN all_data ELSE Append(all_data, Tagged(d, m))
       /\ pos' = AfterFetch(d, pos)
       /\ UNCHANGED <<apc, all_ret>>
       /\ UNCHANGED <<fetchVars, procVars, cacheVars, viewVars, mainVars>>

\* an iteration whose fetch got a response
FetchMunicipalityOk ==
    /\ apc = "loop" /\ pos <= Len(Municipios)
    /\ \E sh \in Shapes :
       \E items \in {b \in BodiesOf(sh) : Len(b) <= MaxItems - RowsSoFar} :
       \E r \in ReturnSingle(SimpleData, sh, items) :
          Iterate(r.ret.tbl, FALSE)

\* an iteration whose fetch failed: its except clause returned the empty table
FetchMunicipalityFail ==
    /\ apc = "loop" /\ pos <= Len(Municipios)
    /\ \E k \in Failures \ {"bad_shape"} :
          Iterate(OnException(SimpleData, ExcOf(k)).ret.tbl, TRUE)

\* after the loop
ReturnAll ==
    /\ apc = "loop" /\ pos > Len(Municipios)
    /\ all_ret' = IF all_data = <<>> THEN Ok(EmptyTable) ELSE Ok(Concat(all_data))
    /\ apc' = "done"
    /\ UNCHANGED <<pos, fetched, all_data>>
    /\ UNCHANGED <<fetchVars, procVars, cacheVars, viewVars, mainVars>>

NextAll ==
    \/ FetchMunicipalityOk
    \/ FetchMunicipalityFail
    \/ ReturnAll

SpecAll == InitAll /\ [][NextAll]_vars

\* rows municipality i contributed
Got(i) == IF IsEmpty(fetched[i].df) THEN 0 ELSE Len(fetched[i].df.rows)

\* C23: fetch_all_municipalities_data calls the fetch once for every
\* municipality of the table, in table order, whatever the earlier calls
\* returned; the table it returns holds, in that order, exactly the rows of
\* the municipalities whose fetch returned data, each with the name and the
\* geocode of its municipality, and is empty exactly when no fetch returned
\* data.
C23_EveryMunicipalityOnce ==
    apc = "done" =>
        LET n == Len(fetched)
            t == all_ret.tbl
            got == [i \in 1..n |-> Got(i)]
            off(i) == SumOver(1..(i - 1), got)
        IN /\ n = Len(Municipios)
           /\ \A i \in 1..n : fetched[i].geocode = Municipios[i].geocode
           /\ all_ret.kind = "table"
           /\ Len(t.rows) = SumOver(1..n, got)
           /\ \A i \in 1..n : \A j \in 1..got[i] :
                 LET r == t.rows[off(i) + j]
                 IN /\ r["municipio_nome"] = NameCell(Municipios[i].name)
                    /\ r["municipio_geocodigo"] = Cell("int", Municipios[i].geocode)
                    /\ \A k \in fetched[i].df.cols :
                          r[k] = fetched[i].df.rows[j][k]
           /\ IsEmpty(t) <=> \A i \in 1..n : IsEmpty(fetched[i].df)

\* the first fetch failed, the second got an empty response, the third got
\* data, and the result holds the rows of the third
C23_Witness ==
    /\ apc = "done"
    /\ fetched[1].failed
    /\ ~fetched[2].failed /\ IsEmpty(fetched[2].df)
    /\ ~IsEmpty(fetched[3].df)
    /\ \A i \in 1..Len(fetched) : i # 3 => IsEmpty(fetched[i].df)
    /\ Len(all_ret.tbl.rows) = Len(fetched[3].df.rows)
    /\ all_ret.tbl.rows[1]["municipio_geocodigo"] = Cell("int", 5103809)


(***************************************************************************)
(* main (app.py and app_simple.py): the page from the loading of df_state  *)
(* to the footer.  built lists the elements main itself puts on the page.  *)
(***************************************************************************)
\* records of the tables main is followed with
MaxPageRecords == 1

ViewTypes == {"Estadual", "Por Municipio"}

\* what main is handed as df_state and as df_muni: the empty table, or the
\* records of the state, or those of one municipality
StateTables(a) == UNION {ViewTablesOf(a, n) : n \in 0..MaxPageRecords}
MunicipalityTables(a) ==
    {t \in StateTables(a) :
        \A i, j \in 1..Len(t.rows) :
            t.rows[i]["municipio_geocodigo"] = t.rows[j]["municipio_geocodigo"]}

\* the per-municipality fetch of the script
MunicipalityFetch(a) == IF a = "app" THEN MunicipalityData ELSE SimpleData

\* a main that goes on with an empty df_state
StopsNever(t) == FALSE

\* if df_state.empty: st.error(...); return
Stops(t) == IsEmpty(t)

\* what becomes of a view's return value: if fig: st.plotly_chart(fig)
Shown(r) ==
    CASE r.kind = "value" -> "built"
      [] r.kind = "raised" -> "raised"
      [] OTHER -> "nothing"

\* the steps of the state view, in page order
StateSteps(a) ==
    IF a = "app" THEN <<"metrics", "distribution", "chart", "map">>
    ELSE <<"metrics", "distribution", "chart", "table">>

\* the steps of the municipality view after a fetch that returned data
MunicipalitySteps == <<"muni_metrics", "muni_chart", "muni_table">>

\* how a step of the page ends for the tables at hand: built, nothing
\* shown, a warning instead, or an exception that ends the script run
Build(a, step, t, g) ==
    CASE step = "metrics" ->
           IF a = "app"
           THEN {Shown(o.ret) : o \in create_metrics_summary(t)}
           ELSE {IF l.kind = "raised" THEN "raised" ELSE "built" : l \in Latest(a, t)}
      [] step = "distribution" ->
           {Shown(o.ret) : o \in create_alert_level_distribution(a, t)}
      [] step = "chart" -> {Shown(create_time_series_chart(a, t))}
      [] step = "map" ->
           {IF o.ret.kind = "value" THEN "built" ELSE "warning" :
               o \in UNION {create_choropleth_map(g, t, m) : m \in Metrics}}
      [] step = "table" ->
           {Shown(o.ret) : o \in create_municipalities_table(t)}
      [] step = "muni_metrics" ->
           IF a = "app" THEN {Shown(single_record(t))}
           ELSE {IF x.kind = "raised" THEN "raised" ELSE Shown(single_record(x.tbl)) :
                    x \in SortBy(t, DateCol(a, t.cols))}
      [] step = "muni_chart" -> {Shown(create_time_series_chart(a, t))}
      [] OTHER -> {"built"}

\* the step after step in the sequence steps, the footer after the last
After(steps, step) ==
    LET i == CHOOSE j \in 1..Len(steps) : steps[j] = step
    IN IF i = Len(steps) THEN "footer" ELSE steps[i + 1]

InitMain ==
    /\ InitFetchIdle
    /\ InitProcIdle
    /\ InitCacheIdle
    /\ InitViewIdle
    /\ InitAllIdle
    /\ mpc = "start"
    /\ app \in {"app", "app_simple"}
    /\ view_type \in ViewTypes
    /\ df_state = EmptyTable /\ main_gdf = NoGdf /\ df_muni = NoResult
    /\ built = <<>> /\ muni_calls = <<>>

\* df_state = fetch_...(...); gdf = get_goias_geodata() in app.py
MainLoad ==
    /\ mpc = "start"
    /\ df_state' \in StateTables(app)
    /\ main_gdf' \in IF app = "app" THEN Gdfs ELSE {NoGdf}
    /\ mpc' = "loaded"
    /\ UNCHANGED <<app, view_type, df_muni, built, muni_calls>>
    /\ UNCHANGED <<fetchVars, procVars, cacheVars, viewVars, allVars>>

\* if df_state.empty: st.error(...); return
MainEmpty ==
    /\ mpc = "loaded" /\ Stops(df_state)
    /\ built' = Append(built, "error")
    /\ mpc' = "returned"
    /\ UNCHANGED <<app, view_type, df_state, main_gdf, df_muni, muni_calls>>
    /\ UNCHANGED <<fetchVars, procVars, cacheVars, viewVars, allVars>>

\* if view_type == "Estadual": ... else: ...
MainBranch ==
    /\ mpc = "loaded" /\ ~Stops(df_state)
    /\ mpc' = IF view_type = "Estadual" THEN StateSteps(app)[1] ELSE "fetch"
    /\ UNCHANGED <<app, view_type, df_state, main_gdf, df_muni, built, muni_calls>>
    /\ UNCHANGED <<fetchVars, procVars, cacheVars, viewVars, allVars>>

\* a step of the state view
MainStateStep ==
    /\ mpc \in Range(StateSteps(app))
    /\ \E o \in Build(app, mpc, df_state, main_gdf) :
          /\ built' = CASE o = "built" -> Append(built, mpc)
                        [] o = "warning" -> Append(built, "warning")
                        [] OTHER -> built
          /\ mpc' = IF o = "raised" THEN "raised" ELSE After(StateSteps(app), mpc)
    /\ UNCHANGED <<app, view_type, df_state, main_gdf, df_muni, muni_calls>>
    /\ UNCHANGED <<fetchVars, procVars, cacheVars, viewVars, allVars>>

\* df_muni = fetch_municipality_data(geocode, ...) (fetch_infodengue_data in
\* app_simple.py); if df_muni.empty: st.warning(...)
MainFetchMunicipality ==
    /\ mpc = "fetch"
    /\ \E m \in Municipalities, d \in MunicipalityTables(app) :
          /\ muni_calls' = Append(muni_calls, [f |-> MunicipalityFetch(app), geocode |-> m])
          /\ df_muni' = Ok(d)
          /\ built' = IF IsEmpty(d) THEN Append(built, "warning") ELSE built
          /\ mpc' = IF IsEmpty(d) THEN "footer" ELSE MunicipalitySteps[1]
    /\ UNCHANGED <<app, view_type, df_state, main_gdf>>
    /\ UNCHANGED <<fetchVars, procVars, cacheVars, viewVars, allVars>>

\* a step of the municipality view
MainMunicipalityStep ==
    /\ mpc \in Range(MunicipalitySteps)
    /\ \E o \in Build(app, mpc, df_muni.tbl, main_gdf) :
          /\ built' = IF o = "built" THEN Append(built, mpc) ELSE built
          /\ mpc' = IF o = "raised" THEN "raised" ELSE After(MunicipalitySteps, mpc)
    /\ UNCHANGED <<app, view_type, df_state, main_gdf, df_muni, muni_calls>>
    /\ UNCHANGED <<fetchVars, procVars, cacheVars, viewVars, allVars>>

\* st.markdown("---") and the expanders below it
MainFooter ==
    /\ mpc = "footer"
    /\ built' = Append(built, "footer")
    /\ mpc' = "done"
    /\ UNCHANGED <<app, view_type, df_state, main_gdf, df_muni, muni_calls>>
    /\ UNCHANGED <<fetchVars, procVars, cacheVars, viewVars, allVars>>

NextMain ==
    \/ MainLoad
    \/ MainEmpty
    \/ MainBranch
    \/ MainStateStep
    \/ MainFetchMunicipality
    \/ MainMunicipalityStep
    \/ MainFooter

SpecMain == InitMain /\ [][NextMain]_vars

\* C24: once main has loaded an empty df_state it puts the error on the page
\* and nothing else, in either script and either view: no metric, chart, map
\* or table, no per-municipality fetch, and the run ends there.
C24_EmptyStateStops ==
    (mpc \notin {"off", "start"} /\ IsEmpty(df_state)) =>
        /\ mpc \in {"loaded", "returned"}
        /\ muni_calls = <<>>
        /\ df_muni = NoResult
        /\ built = IF mpc = "returned" THEN <<"error">> ELSE <<>>

\* app.py, municipality view, empty df_state: the run has ended with the
\* error only
C24_Witness ==
    /\ mpc = "returned"
    /\ app = "app" /\ view_type = "Por Municipio"
    /\ IsEmpty(df_state)
    /\ built = <<"error">>
    /\ muni_calls = <<>>

====
